---- MODULE Spec2Model ----
(***************************************************************************)
(* Wait / retry layer of the QA automation framework:                      *)
(*   BasePage.safeClick, BasePage.safeType, BasePage.waitForClickable,     *)
(*   BasePage.waitForVisible        (src/unnamed/part_001)                 *)
(*   WaitUtils.waitForElementToDisappear, WaitUtils.waitWithBackoff        *)
(*                                  (src/src/utils/WaitUtils.ts)           *)
(*                                                                         *)
(* One scenario is one logical thread: a call runs from one await to the   *)
(* next in a single step, and the next call starts when the previous one   *)
(* has returned or raised.  The browser driver and the polled condition    *)
(* are the environment: what they do in each attempt is an input of the    *)
(* call, drawn from every script over the outcomes listed below.           *)
(***************************************************************************)
EXTENDS Integers, Sequences, FiniteSets

VARIABLES
    call,        \* the running (or last finished) call: operation and arguments
    pc,          \* where the call is suspended, or how it ended
    i,           \* safeClick: loop variable i; waitWithBackoff: loop variable attempt
    element,     \* the element handle held by the current attempt
    thrown,      \* the error raised to the caller
    log,         \* Logger calls made by this call, in order
    pauses,      \* browser.pause(ms) calls made by this call, in order
    evals,       \* results the condition gave in this call, in order
    resolutions, \* number of $(selector) resolutions made by this call
    acts,        \* action primitives (click, clearValue, setValue) invoked by this call
    prev,        \* summary of the call that ended before this one began
    returned,    \* the value the call has handed to its caller
    frames,      \* the local state of each invocation in flight, when
                 \* calls overlap at their suspension points
    client,      \* the fields of the BaseApiClient: defaultHeaders, timeout
    trace,       \* what the calls on the client have shown so far: the
                 \* headers of the last request as given, as logged and as
                 \* handed to fetch
    script,      \* the caller, when it is a method or a scenario that awaits
                 \* several calls in a row: its position and what it has done
    window       \* the size of the browser window

vars == <<call, pc, i, element, thrown, log, pauses, evals, resolutions, acts, prev, returned, frames, client, trace, script, window>>

----------------------------------------------------------------------------
(* Bounds of the model *)

MaxRetries == 3      \* largest retries argument of safeClick that is explored
MaxAttempts == 5     \* largest maxAttempts argument of waitWithBackoff that is explored
MinHeight == 700     \* screenshots are explored while the window is higher than this
MaxConditions == 2   \* longest condition list of smartWait that is explored
MaxRounds == 2       \* most polling rounds of one smartWait call that are explored

(* Program constants *)

DefaultRetries == 3        \* safeClick(selector, retries = 3)
RetryDelay == 1000         \* browser.pause(1000) in safeClick
ReadyTimeout == 10000      \* waitForClickable / waitForVisible (timeout = 10000)
DefaultMaxAttempts == 5    \* waitWithBackoff(condition, maxAttempts = 5, ...)
DefaultBaseDelay == 1000   \* waitWithBackoff(..., baseDelay = 1000)
DefaultInterval == 500     \* waitWithPolling(condition, timeout = 10000, interval = 500)
BackoffFactor == 2         \* Math.pow(2, attempt - 1)
StepTimeout == 60000       \* cucumberOpts.timeout
CommandTimeout == 120000   \* connectionRetryTimeout: how long a driver command may take

----------------------------------------------------------------------------
(* Inputs *)

Selectors == {"#email"}

\* What the page does during one attempt of safeClick
ClickBehaviour == {"absent",        \* the locator matches zero elements
                   "notClickable",  \* the element exists, never becomes clickable in time
                   "clickFails",    \* click raises, nothing was clicked
                   "clickPartial",  \* click raises after the page already reacted
                   "ok"}            \* one clickable element, click succeeds

\* What the page does during safeType
TypeBehaviour == {"absent", "notVisible", "clearFails", "setFails", "ok"}

\* What the page does during waitForElementToDisappear
DisappearBehaviour == {"absent",      \* no such element
                       "disappears",  \* hidden before the timeout
                       "stays"}       \* still displayed when the timeout expires

\* What one evaluation of a polled condition does
CondResult == {"true", "false", "throw"}

RetriesArgs == -1 .. MaxRetries
MaxAttemptsArgs == 0 .. MaxAttempts
BaseDelays == {DefaultBaseDelay, 250}

RECURSIVE Pow(_, _)
Pow(b, e) == IF e <= 0 THEN 1 ELSE b * Pow(b, e - 1)

----------------------------------------------------------------------------
(* Values *)

NoCall == [op |-> "none"]
NoElement == [sel |-> "", at |-> 0, exists |-> FALSE]
NoError == [name |-> "none"]
NoValue == [kind |-> "none"]

\* An error the driver raised: which primitive raised it, in which attempt
DriverError(src, sel, at) == [name |-> "Error", src |-> src, sel |-> sel, at |-> at]

LogEntry(level, msg) == [level |-> level, msg |-> msg]

\* The parts of an error message built from a template literal: fixed text, and
\* the values interpolated into it, each named after the expression it comes from
Text(t) == [arg |-> "", value |-> t]
Arg(name, v) == [arg |-> name, value |-> v]

Terminal == {"Success", "Failed"}

CountLevel(level) == Cardinality({k \in 1 .. Len(log) : log[k].level = level})

\* What is kept of a call once the next one begins
Summary ==
    [op |-> call.op,
     alreadyTrue |-> (/\ call.op = "waitWithBackoff"
                      /\ call.maxAttempts >= 1
                      /\ call.condition[1] = "true"),
     immediate |-> (pc = "Success" /\ Len(evals) = 1 /\ pauses = <<>>)]

\* Every invocation starts with its own empty attempt state
Enter(c, nextPc, firstLog, n, raised) ==
    /\ prev' = prev
    /\ UNCHANGED <<frames, client, trace, window>>
    /\ returned' = NoValue
    /\ call' = c
    /\ pc' = nextPc
    /\ i' = n
    /\ element' = NoElement
    /\ thrown' = raised
    /\ log' = firstLog
    /\ pauses' = <<>>
    /\ evals' = <<>>
    /\ resolutions' = 0
    /\ acts' = <<>>

\* A call made by a test directly
Begin(c, nextPc, firstLog, n, raised) ==
    /\ Enter(c, nextPc, firstLog, n, raised)
    /\ script' = script

\* The caller resumes with the outcome; nothing of the call is kept
Leave(summary) ==
    /\ pc \in Terminal
    /\ prev' = summary
    /\ UNCHANGED <<frames, client, trace, window>>
    /\ returned' = NoValue
    /\ call' = NoCall
    /\ pc' = "Idle"
    /\ i' = 0
    /\ element' = NoElement
    /\ thrown' = NoError
    /\ log' = <<>>
    /\ pauses' = <<>>
    /\ evals' = <<>>
    /\ resolutions' = 0
    /\ acts' = <<>>

Finish(summary) ==
    /\ Leave(summary)
    /\ script' = script

Return == Finish(Summary)

\* The browser is started with --window-size=1920,1080
StartWindow == [width |-> 1920, height |-> 1080]

\* No method or scenario is awaiting a series of calls
NoScript == [name |-> "none", rememberMe |-> FALSE, buttonEnabled |-> TRUE,
             at |-> 0, done |-> <<>>, status |-> "idle", error |-> NoError]

(* Header objects: a JavaScript object from header names to values.  A    *)
(* value is the sequence of the words of the string.                      *)

NoHeaders == [k \in {} |-> <<>>]

\* { ...a, ...b }: the keys of both, b's value where both have the key
Merge(a, b) == [k \in DOMAIN a \cup DOMAIN b |-> IF k \in DOMAIN b THEN b[k] ELSE a[k]]

\* h[key] = value
With(h, key, value) == [k \in DOMAIN h \cup {key} |-> IF k = key THEN value ELSE h[k]]

\* delete h[key]
Without(h, key) == [k \in DOMAIN h \ {key} |-> h[k]]

DefaultTimeout == 30000    \* this.timeout = 30000

\* constructor(baseURL, defaultHeaders = {})
NewClient ==
    [defaultHeaders |-> [k \in {"Content-Type", "Accept"} |-> <<"application/json">>],
     timeout |-> DefaultTimeout]

\* No request made yet, no Authorization value set yet
NoTrace == [op |-> "none", tick |-> FALSE, given |-> NoHeaders, logged |-> NoHeaders,
            sent |-> NoHeaders, lastAuth |-> <<>>]

\* The callers whose calls may overlap on one page object
Invocations == {"first", "second"}

\* The locals of an invocation: its arguments, its loop counter (let i = 0 /
\* let attempt = 1), where it is suspended, and, for the properties, the
\* results of the attempts it has finished and the number it has started
NoFrame == [op |-> "none", pc |-> "Idle", budget |-> 0, i |-> 0,
            results |-> <<>>, started |-> 0]

Init ==
    /\ call = NoCall
    /\ pc = "Idle"
    /\ i = 0
    /\ element = NoElement
    /\ thrown = NoError
    /\ log = <<>>
    /\ pauses = <<>>
    /\ evals = <<>>
    /\ resolutions = 0
    /\ acts = <<>>
    /\ prev = [op |-> "none", alreadyTrue |-> FALSE, immediate |-> FALSE]
    /\ returned = NoValue
    /\ frames = [p \in Invocations |-> NoFrame]
    /\ client = NewClient
    /\ trace = NoTrace
    /\ script = NoScript
    /\ window = StartWindow

----------------------------------------------------------------------------
(* BasePage.safeClick: for (i = 0; i < retries; i++) try { waitForClickable; *)
(* click; info; return } catch { warn; if (i === retries - 1) throw; pause } *)

\* Entering the loop body: waitForClickable begins with `await $(selector)`
SafeClickCall ==
    /\ pc = "Idle"
    /\ \E sel \in Selectors, retries \in RetriesArgs,
       dom \in [1 .. MaxRetries -> ClickBehaviour] :
        Begin([op |-> "safeClick", selector |-> sel, retries |-> retries, dom |-> dom],
              IF 0 < retries THEN "Resolving" ELSE "Success", <<>>, 0, NoError)

\* Variant: the warning is written only when the call gives up
SafeClickCatchWarnLast(error) ==
    /\ IF i = call.retries - 1
         THEN /\ log' = Append(log, LogEntry("warn",
                          <<"Click attempt", i + 1, "failed for", call.selector, error>>))
              /\ thrown' = error
              /\ pc' = "Failed"
              /\ pauses' = pauses
         ELSE /\ log' = log
              /\ thrown' = thrown
              /\ pc' = "RetryPending"
              /\ pauses' = Append(pauses, RetryDelay)

\* Variant: the call gives up with the error of its first failed attempt
SafeClickCatchFirstError(error) ==
    /\ log' = Append(log, LogEntry("warn",
                 <<"Click attempt", i + 1, "failed for", call.selector, error>>))
    /\ IF i = call.retries - 1
         THEN /\ thrown' = IF log = <<>> THEN error ELSE log[1].msg[5]
              /\ pc' = "Failed"
              /\ pauses' = pauses
         ELSE /\ thrown' = thrown
              /\ pc' = "RetryPending"
              /\ pauses' = Append(pauses, RetryDelay)

\* Variant: only a failed click is retried, a failed readiness wait is raised at once
SafeClickCatchClickOnly(error) ==
    /\ log' = Append(log, LogEntry("warn",
                 <<"Click attempt", i + 1, "failed for", call.selector, error>>))
    /\ IF i = call.retries - 1 \/ error.src = "waitForClickable"
         THEN /\ thrown' = error
              /\ pc' = "Failed"
              /\ pauses' = pauses
         ELSE /\ thrown' = thrown
              /\ pc' = "RetryPending"
              /\ pauses' = Append(pauses, RetryDelay)

\* Variant: the failure of the last attempt is logged at error level
SafeClickCatchErrorLast(error) ==
    /\ log' = Append(log, LogEntry(IF i = call.retries - 1 THEN "error" ELSE "warn",
                 <<"Click attempt", i + 1, "failed for", call.selector, error>>))
    /\ IF i = call.retries - 1
         THEN /\ thrown' = error
              /\ pc' = "Failed"
              /\ pauses' = pauses
         ELSE /\ thrown' = thrown
              /\ pc' = "RetryPending"
              /\ pauses' = Append(pauses, RetryDelay)

\* Variant: the pause comes before the test of the last attempt
SafeClickCatchPauseLast(error) ==
    /\ log' = Append(log, LogEntry("warn",
                 <<"Click attempt", i + 1, "failed for", call.selector, error>>))
    /\ pauses' = Append(pauses, RetryDelay)
    /\ IF i = call.retries - 1
         THEN /\ thrown' = error
              /\ pc' = "Failed"
         ELSE /\ thrown' = thrown
              /\ pc' = "RetryPending"

\* The catch block of safeClick, run with the error of attempt i + 1
SafeClickCatch(error) ==
    /\ log' = Append(log, LogEntry("warn",
                 <<"Click attempt", i + 1, "failed for", call.selector, error>>))
    /\ IF i = call.retries - 1
         THEN /\ thrown' = error
              /\ pc' = "Failed"
              /\ pauses' = pauses
         ELSE /\ thrown' = thrown
              /\ pc' = "RetryPending"
              /\ pauses' = Append(pauses, RetryDelay)

\* Variant: the handle resolved by the first attempt is kept for the later ones
SafeClickResolvedCached ==
    /\ call.op = "safeClick"
    /\ pc = "Resolving"
    /\ element' = IF element = NoElement
                    THEN [sel |-> call.selector, at |-> i + 1,
                          exists |-> (call.dom[i + 1] # "absent")]
                    ELSE element
    /\ resolutions' = IF element = NoElement THEN resolutions + 1 ELSE resolutions
    /\ pc' = "AwaitingReady"
    /\ UNCHANGED <<call, i, thrown, log, pauses, evals, acts, prev, returned, frames, client, trace, script, window>>

\* `const element = await $(selector)` of waitForClickable
SafeClickResolved ==
    /\ call.op = "safeClick"
    /\ pc = "Resolving"
    /\ element' = [sel |-> call.selector, at |-> i + 1,
                   exists |-> (call.dom[i + 1] # "absent")]
    /\ resolutions' = resolutions + 1
    /\ pc' = "AwaitingReady"
    /\ UNCHANGED <<call, i, thrown, log, pauses, evals, acts, prev, returned, frames, client, trace, script, window>>

\* Variant: the readiness wait is not awaited, the click begins whatever it gives
SafeClickReadyNoWait ==
    /\ call.op = "safeClick"
    /\ pc = "AwaitingReady"
    /\ pc' = "Acting"
    /\ acts' = Append(acts, [prim |-> "click", element |-> element, attempt |-> i + 1])
    /\ UNCHANGED <<call, i, element, thrown, log, pauses, evals, resolutions, prev, returned, frames, client, trace, script, window>>

\* `await element.waitForClickable({ timeout })` ends; on success click begins
SafeClickReady ==
    /\ call.op = "safeClick"
    /\ pc = "AwaitingReady"
    /\ IF call.dom[i + 1] \in {"absent", "notClickable"}
         THEN /\ SafeClickCatch(DriverError("waitForClickable", call.selector, i + 1))
              /\ acts' = acts
         ELSE /\ pc' = "Acting"
              /\ acts' = Append(acts, [prim |-> "click", element |-> element, attempt |-> i + 1])
              /\ UNCHANGED <<thrown, log, pauses>>
    /\ UNCHANGED <<call, i, element, evals, resolutions, prev, returned, frames, client, trace, script, window>>

\* Variant: a click that raised after the page reacted counts as done
SafeClickActedDetectsPartial ==
    /\ call.op = "safeClick"
    /\ pc = "Acting"
    /\ IF call.dom[i + 1] \in {"ok", "clickPartial"}
         THEN /\ log' = Append(log, LogEntry("info",
                          <<"Successfully clicked element:", call.selector>>))
              /\ pc' = "Success"
              /\ UNCHANGED <<thrown, pauses>>
         ELSE SafeClickCatch(DriverError("click", call.selector, i + 1))
    /\ UNCHANGED <<call, i, element, evals, resolutions, acts, prev, returned, frames, client, trace, script, window>>

\* `await element.click()` ends
SafeClickActed ==
    /\ call.op = "safeClick"
    /\ pc = "Acting"
    /\ IF call.dom[i + 1] = "ok"
         THEN /\ log' = Append(log, LogEntry("info",
                          <<"Successfully clicked element:", call.selector>>))
              /\ pc' = "Success"
              /\ UNCHANGED <<thrown, pauses>>
         ELSE SafeClickCatch(DriverError("click", call.selector, i + 1))
    /\ UNCHANGED <<call, i, element, evals, resolutions, acts, prev, returned, frames, client, trace, script, window>>

\* `await browser.pause(1000)` ends; i++ and the next attempt begins
SafeClickRetry ==
    /\ call.op = "safeClick"
    /\ pc = "RetryPending"
    /\ i' = i + 1
    /\ pc' = IF i + 1 < call.retries THEN "Resolving" ELSE "Success"
    /\ UNCHANGED <<call, element, thrown, log, pauses, evals, resolutions, acts, prev, returned, frames, client, trace, script, window>>

----------------------------------------------------------------------------
(* BasePage.safeType: waitForVisible; clearValue; setValue; info *)

\* dom[1] is what the page does during the call, dom[2..] what it would do
\* if the interaction were tried again
SafeTypeCall ==
    /\ pc = "Idle"
    /\ \E sel \in Selectors, dom \in [1 .. MaxRetries -> TypeBehaviour] :
        Begin([op |-> "safeType", selector |-> sel, text |-> "text", dom |-> dom],
              "Resolving", <<>>, 0, NoError)

\* Variant: the error is swallowed and the call reports success
SafeTypeRaiseSwallowed(error) ==
    /\ thrown' = thrown
    /\ pc' = "Success"

\* An error leaves safeType at once: it has no try / catch
SafeTypeRaise(error) ==
    /\ thrown' = error
    /\ pc' = "Failed"

\* `const element = await $(selector)` of waitForVisible
SafeTypeResolved ==
    /\ call.op = "safeType"
    /\ pc = "Resolving"
    /\ element' = [sel |-> call.selector, at |-> i + 1,
                   exists |-> (call.dom[i + 1] # "absent")]
    /\ resolutions' = resolutions + 1
    /\ pc' = "AwaitingReady"
    /\ UNCHANGED <<call, i, thrown, log, pauses, evals, acts, prev, returned, frames, client, trace, script, window>>

\* `await element.waitForDisplayed({ timeout })` ends; on success clearValue begins
SafeTypeReady ==
    /\ call.op = "safeType"
    /\ pc = "AwaitingReady"
    /\ IF call.dom[i + 1] \in {"absent", "notVisible"}
         THEN /\ SafeTypeRaise(DriverError("waitForDisplayed", call.selector, i + 1))
              /\ acts' = acts
         ELSE /\ pc' = "Clearing"
              /\ acts' = Append(acts, [prim |-> "clearValue", element |-> element, attempt |-> i + 1])
              /\ thrown' = thrown
    /\ UNCHANGED <<call, i, element, log, pauses, evals, resolutions, prev, returned, frames, client, trace, script, window>>

\* `await element.clearValue()` ends; on success setValue begins
SafeTypeCleared ==
    /\ call.op = "safeType"
    /\ pc = "Clearing"
    /\ IF call.dom[i + 1] = "clearFails"
         THEN /\ SafeTypeRaise(DriverError("clearValue", call.selector, i + 1))
              /\ acts' = acts
         ELSE /\ pc' = "Acting"
              /\ acts' = Append(acts, [prim |-> "setValue", element |-> element, attempt |-> i + 1])
              /\ thrown' = thrown
    /\ UNCHANGED <<call, i, element, log, pauses, evals, resolutions, prev, returned, frames, client, trace, script, window>>

\* `await element.setValue(text)` ends
SafeTypeActed ==
    /\ call.op = "safeType"
    /\ pc = "Acting"
    /\ IF call.dom[i + 1] = "setFails"
         THEN /\ SafeTypeRaise(DriverError("setValue", call.selector, i + 1))
              /\ log' = log
         ELSE /\ log' = Append(log, LogEntry("info",
                          <<"Successfully typed text into element:", call.selector>>))
              /\ pc' = "Success"
              /\ thrown' = thrown
    /\ UNCHANGED <<call, i, element, pauses, evals, resolutions, acts, prev, returned, frames, client, trace, script, window>>

----------------------------------------------------------------------------
(* WaitUtils.waitForElementToDisappear: try { $; waitForDisplayed reverse } *)
(* catch { debug }                                                          *)

DisappearCall ==
    /\ pc = "Idle"
    /\ \E sel \in Selectors, dom \in DisappearBehaviour :
        Begin([op |-> "waitForElementToDisappear", selector |-> sel,
               timeout |-> ReadyTimeout, dom |-> dom],
              "Resolving",
              <<LogEntry("debug", <<"Waiting for element to disappear:", sel>>)>>, 0, NoError)

\* `const element = await $(selector)`
DisappearResolved ==
    /\ call.op = "waitForElementToDisappear"
    /\ pc = "Resolving"
    /\ element' = [sel |-> call.selector, at |-> 1, exists |-> (call.dom # "absent")]
    /\ resolutions' = resolutions + 1
    /\ pc' = "AwaitingReady"
    /\ UNCHANGED <<call, i, thrown, log, pauses, evals, acts, prev, returned, frames, client, trace, script, window>>

\* What the method does with the outcome of waitForDisplayed({ timeout, reverse: true }):
\* the catch block logs and lets the method return
DisappearOutcome(timedOut) ==
    /\ log' = IF timedOut
                THEN Append(log, LogEntry("debug",
                        <<"Element", call.selector, "not found or already disappeared">>))
                ELSE log
    /\ thrown' = thrown
    /\ pc' = "Success"

\* `await element.waitForDisplayed({ timeout, reverse: true })` ends
DisappearWaited ==
    /\ call.op = "waitForElementToDisappear"
    /\ pc = "AwaitingReady"
    /\ DisappearOutcome(call.dom = "stays")
    /\ UNCHANGED <<call, i, element, pauses, evals, resolutions, acts, prev, returned, frames, client, trace, script, window>>

----------------------------------------------------------------------------
(* WaitUtils.waitWithBackoff: for (attempt = 1; attempt <= maxAttempts;      *)
(* attempt++) { try { if (await condition()) return } catch { debug }        *)
(* if (attempt < maxAttempts) pause(baseDelay * 2^(attempt-1)) } throw Error *)

\* Variant: the message is a fixed text
BackoffTimeoutPlain(maxAttempts) ==
    [name |-> "Error",
     message |-> <<Text("Condition not met with exponential backoff")>>]

BackoffTimeout(maxAttempts) ==
    [name |-> "Error",
     message |-> <<Text("Condition not met after"), Arg("maxAttempts", maxAttempts),
                   Text("attempts with exponential backoff")>>]

\* Variant: the exponent is the attempt number itself
BackoffDelayFromAttempt(baseDelay, attempt) == baseDelay * Pow(BackoffFactor, attempt)

\* const delay = baseDelay * Math.pow(2, attempt - 1)
BackoffDelay(baseDelay, attempt) == baseDelay * Pow(BackoffFactor, attempt - 1)

\* Variant: the loop pauses after the last attempt too
BackoffPausesAlways(attempt, maxAttempts) == attempt <= maxAttempts

\* Whether the loop pauses after a failed attempt: if (attempt < maxAttempts)
BackoffPauses(attempt, maxAttempts) == attempt < maxAttempts

\* The error a throwing condition raises in the given evaluation
ConditionError(attempt) == [name |-> "Error", src |-> "condition", at |-> attempt]

\* Variant: the test of the condition's result is inverted
BackoffOutcomeInverted(result) ==
    CASE result = "true" -> "continue"
      [] result = "false" -> "return"
      [] result = "throw" -> "continue"

\* Variant: no catch, the condition's error leaves the wait
BackoffOutcomePropagate(result) ==
    CASE result = "true" -> "return"
      [] result = "false" -> "continue"
      [] result = "throw" -> "raise"

\* try { if (await condition()) return; } catch (error) { debug }:
\* what one evaluation makes the loop do
BackoffOutcome(result) ==
    CASE result = "true" -> "return"
      [] result = "false" -> "continue"
      [] result = "throw" -> "continue"

\* Variant: the loop stops one attempt early
BackoffContinuesStrict(attempt, maxAttempts) == attempt < maxAttempts

\* The loop test: attempt <= maxAttempts
BackoffContinues(attempt, maxAttempts) == attempt <= maxAttempts

BackoffCall ==
    /\ pc = "Idle"
    /\ \E cond \in [1 .. MaxAttempts -> CondResult],
       maxAttempts \in MaxAttemptsArgs, baseDelay \in BaseDelays :
        Begin([op |-> "waitWithBackoff", condition |-> cond,
               maxAttempts |-> maxAttempts, baseDelay |-> baseDelay],
              IF BackoffContinues(1, maxAttempts) THEN "Evaluating" ELSE "Failed",
              <<LogEntry("debug",
                  <<"Waiting with exponential backoff, max attempts:", maxAttempts>>)>>,
              1,
              IF BackoffContinues(1, maxAttempts)
                THEN NoError ELSE BackoffTimeout(maxAttempts))

\* `await condition()` ends
BackoffEvaluated ==
    LET result == call.condition[i]
        caught == IF result = "throw"
                    THEN <<LogEntry("debug",
                             <<"Attempt", i, "failed:", ConditionError(i)>>)>>
                    ELSE <<>>
        delay == BackoffDelay(call.baseDelay, i)
    IN
    /\ call.op = "waitWithBackoff"
    /\ pc = "Evaluating"
    /\ evals' = Append(evals, result)
    /\ CASE BackoffOutcome(result) = "return" ->
              /\ pc' = "Success"
              /\ UNCHANGED <<i, thrown, log, pauses>>
         [] BackoffOutcome(result) = "raise" ->
              /\ pc' = "Failed"
              /\ thrown' = ConditionError(i)
              /\ UNCHANGED <<i, log, pauses>>
         [] BackoffOutcome(result) = "continue" /\ BackoffPauses(i, call.maxAttempts) ->
              /\ log' = log \o caught \o
                    <<LogEntry("debug", <<"Waiting", delay, "ms before next attempt">>)>>
              /\ pauses' = Append(pauses, delay)
              /\ pc' = "Pausing"
              /\ UNCHANGED <<i, thrown>>
         [] OTHER ->
              /\ log' = log \o caught
              /\ i' = i + 1
              /\ IF BackoffContinues(i + 1, call.maxAttempts)
                   THEN /\ pc' = "Evaluating"
                        /\ thrown' = thrown
                   ELSE /\ pc' = "Failed"
                        /\ thrown' = BackoffTimeout(call.maxAttempts)
              /\ pauses' = pauses
    /\ UNCHANGED <<call, element, resolutions, acts, prev, returned, frames, client, trace, script, window>>

\* `await browser.pause(delay)` ends; attempt++ and the condition is called again
BackoffPaused ==
    /\ call.op = "waitWithBackoff"
    /\ pc = "Pausing"
    /\ i' = i + 1
    /\ IF BackoffContinues(i + 1, call.maxAttempts)
         THEN /\ pc' = "Evaluating"
              /\ thrown' = thrown
         ELSE /\ pc' = "Failed"
              /\ thrown' = BackoffTimeout(call.maxAttempts)
    /\ UNCHANGED <<call, element, log, pauses, evals, resolutions, acts, prev, returned, frames, client, trace, script, window>>

----------------------------------------------------------------------------
(* WaitUtils.waitWithPolling: debug; await browser.waitUntil(condition,      *)
(* { timeout, interval, timeoutMsg })                                        *)

\* How the driver's waitUntil ends
PollOutcome == {"satisfied",    \* the condition returned true in time
                "timeout",      \* the driver raises the timeoutMsg it was given
                "driverError"}  \* the driver raises an error of its own

\* timeoutMsg: 'Custom wait condition not met within timeout'
PollingTimeoutMsg == <<Text("Custom wait condition not met within timeout")>>

PollingCall ==
    /\ pc = "Idle"
    /\ \E timeout \in {ReadyTimeout, 0}, interval \in {DefaultInterval, ReadyTimeout},
          outcome \in PollOutcome :
        Begin([op |-> "waitWithPolling",
               options |-> [timeout |-> timeout, interval |-> interval,
                            timeoutMsg |-> PollingTimeoutMsg],
               outcome |-> outcome],
              "Polling",
              <<LogEntry("debug",
                  <<"Waiting with custom polling interval:", interval, "ms">>)>>,
              0, NoError)

\* `await browser.waitUntil(...)` ends; nothing is caught
PollingDone ==
    /\ call.op = "waitWithPolling"
    /\ pc = "Polling"
    /\ CASE call.outcome = "satisfied" ->
              /\ pc' = "Success"
              /\ thrown' = thrown
         [] call.outcome = "timeout" ->
              /\ pc' = "Failed"
              /\ thrown' = [name |-> "Error", message |-> call.options.timeoutMsg]
         [] call.outcome = "driverError" ->
              /\ pc' = "Failed"
              /\ thrown' = DriverError("waitUntil", "", 0)
    /\ UNCHANGED <<call, i, element, log, pauses, evals, resolutions, acts, prev, returned, frames, client, trace, script, window>>

----------------------------------------------------------------------------
(* BaseApiClient.request and BaseApiClient.downloadFile                      *)
(* get, post, put, delete and patch hand their arguments to request and      *)
(* return its promise; they are calls of request with the method filled in   *)

Methods == {"GET", "POST"}
ApiOps == {"request", "downloadFile"}

\* The status line of the response, chosen by the server
StatusText ==
    [s \in {200, 201, 204, 404, 500} |->
        CASE s = 200 -> "OK"
          [] s = 201 -> "Created"
          [] s = 204 -> "No Content"
          [] s = 404 -> "Not Found"
          [] s = 500 -> "Internal Server Error"]

Statuses == DOMAIN StatusText

\* Response.ok of the fetch standard: the status is in the range 200-299
Ok(status) == status >= 200 /\ status <= 299

\* What fetch resolves with: the status, whether content-type includes
\* application/json, and whether the body can be read (and parsed) in that form
Responses == [status : Statuses, json : BOOLEAN, bodyOk : BOOLEAN]

\* What the network does with the request: fetch rejects, or a response
NetBehaviour == {[failed |-> TRUE]} \cup
                {[failed |-> FALSE, response |-> r] : r \in Responses}

\* new Error(`HTTP ${response.status}: ${response.statusText}`)
HttpError(response) ==
    [name |-> "Error",
     message |-> <<Text("HTTP"), Arg("response.status", response.status),
                   Arg("response.statusText", StatusText[response.status])>>]

\* new Error(`Failed to download file: ${response.message}`)
DownloadError(response) ==
    [name |-> "Error",
     message |-> <<Text("Failed to download file:"),
                   Arg("response.message", response.message)>>]

\* const apiResponse: ApiResponse<T> = { status, data, headers, success, message }
ApiResponse(response) ==
    [kind |-> "ApiResponse",
     status |-> response.status,
     data |-> IF response.json THEN "json" ELSE "text",
     success |-> Ok(response.status),
     message |-> IF Ok(response.status) THEN "Request successful"
                                        ELSE "Request failed"]

\* catch (error) { logger.error(... 'API Request Failed' ...); throw error }
\* downloadFile does not catch: the error of request is the error of downloadFile
ApiCatch(error) ==
    /\ log' = Append(log, LogEntry("error", <<"API Request Failed", error.name>>))
    /\ thrown' = error
    /\ pc' = "Failed"
    /\ returned' = returned

\* logger.info 'API Request'; buildUrl; the call of fetch
ApiCall ==
    /\ pc = "Idle"
    /\ \E op \in ApiOps, method \in Methods, urlOk \in BOOLEAN, net \in NetBehaviour :
        /\ op = "downloadFile" => method = "GET"
        /\ Begin([op |-> op, method |-> method, urlOk |-> urlOk, net |-> net],
                 "Building",
                 <<LogEntry("info", <<"API Request", method>>)>>,
                 0, NoError)

\* buildUrl: new URL(url) raises on a url that cannot be parsed
ApiUrlBuilt ==
    /\ call.op \in ApiOps
    /\ pc = "Building"
    /\ IF call.urlOk
       THEN /\ pc' = "Fetching"
            /\ UNCHANGED <<thrown, log, returned, frames, client, trace, script, window>>
       ELSE ApiCatch([name |-> "TypeError", source |-> "buildUrl"])
    /\ UNCHANGED <<call, i, element, pauses, evals, resolutions, acts, prev, frames, client, trace, script, window>>

\* `await fetch(url, requestOptions)` ends
ApiFetched ==
    /\ call.op \in ApiOps
    /\ pc = "Fetching"
    /\ IF call.net.failed
       THEN ApiCatch([name |-> "TypeError", source |-> "fetch"])
       ELSE /\ pc' = "ReadingBody"
            /\ UNCHANGED <<thrown, log, returned, frames, client, trace, script, window>>
    /\ UNCHANGED <<call, i, element, pauses, evals, resolutions, acts, prev, frames, client, trace, script, window>>

\* Variant: the response is returned whatever its status
ApiSettleAlways(response) ==
    /\ log' = Append(log, LogEntry("info",
                  <<"API Response", response.status, Ok(response.status)>>))
    /\ returned' = ApiResponse(response)
    /\ pc' = IF call.op = "downloadFile" THEN "Resuming" ELSE "Success"
    /\ thrown' = thrown

\* logger.info 'API Response'; if (!response.ok) throw ...; return apiResponse
ApiSettle(response) ==
    IF Ok(response.status)
    THEN /\ log' = Append(log, LogEntry("info",
                       <<"API Response", response.status, Ok(response.status)>>))
         /\ returned' = ApiResponse(response)
         /\ pc' = IF call.op = "downloadFile" THEN "Resuming" ELSE "Success"
         /\ thrown' = thrown
    ELSE /\ log' = log \o <<LogEntry("info",
                       <<"API Response", response.status, Ok(response.status)>>),
                             LogEntry("error",
                       <<"API Request Failed", HttpError(response).name>>)>>
         /\ thrown' = HttpError(response)
         /\ pc' = "Failed"
         /\ returned' = returned

\* `await response.json()` or `await response.text()` ends
ApiBodyRead ==
    /\ call.op \in ApiOps
    /\ pc = "ReadingBody"
    /\ IF call.net.response.bodyOk
       THEN ApiSettle(call.net.response)
       ELSE ApiCatch([name |-> IF call.net.response.json THEN "SyntaxError"
                                                         ELSE "TypeError",
                      source |-> "body"])
    /\ UNCHANGED <<call, i, element, pauses, evals, resolutions, acts, prev, frames, client, trace, script, window>>

\* downloadFile resumes with the response of request
DownloadResumed ==
    /\ call.op = "downloadFile"
    /\ pc = "Resuming"
    /\ IF returned.success
       THEN /\ returned' = [kind |-> "Buffer", data |-> returned.data]
            /\ pc' = "Success"
            /\ thrown' = thrown
       ELSE /\ returned' = NoValue
            /\ pc' = "Failed"
            /\ thrown' = DownloadError(returned)
    /\ UNCHANGED <<call, i, element, log, pauses, evals, resolutions, acts, prev, frames, client, trace, script, window>>

----------------------------------------------------------------------------
(* safeClick and waitWithBackoff called again while an earlier call is       *)
(* suspended at an await: the same methods, one frame per invocation         *)

callVars == <<call, pc, i, element, thrown, log, pauses, evals, resolutions, acts,
              prev, returned>>

\* Variant: the loop counter is a field of the page object
SlotShared(p) == "first"

\* Where the loop counter of invocation p lives: `let` declares it in the
\* scope of the call, so every invocation has its own
Slot(p) == p

Counter(p) == frames[Slot(p)].i

\* Invocation p goes on with locals f and loop counter c
Put(p, f, c) == [frames EXCEPT ![p] = f, ![Slot(p)].i = c]

\* safeClick(selector, retries): let i = 0; i < retries
FrameClickCall(p) ==
    /\ frames[p].pc = "Idle"
    /\ \E retries \in RetriesArgs :
        frames' = Put(p, [frames[p] EXCEPT !.op = "safeClick", !.budget = retries,
                                          !.results = <<>>,
                                          !.started = IF 0 < retries THEN 1 ELSE 0,
                                          !.pc = IF 0 < retries THEN "AwaitingReady"
                                                                ELSE "Success"],
                      0)
    /\ UNCHANGED <<callVars, client, trace, script, window>>

\* catch (error): the attempt has failed
FrameClickCatch(p) ==
    frames' = Put(p, [frames[p] EXCEPT !.results = Append(@, "fail"),
                                      !.pc = IF Counter(p) = frames[p].budget - 1
                                               THEN "Failed" ELSE "RetryPending"],
                  Counter(p))

\* `await this.waitForClickable(selector)` ends
FrameClickReady(p) ==
    /\ frames[p].op = "safeClick"
    /\ frames[p].pc = "AwaitingReady"
    /\ \E ready \in BOOLEAN :
        IF ready
          THEN frames' = Put(p, [frames[p] EXCEPT !.pc = "Acting"], Counter(p))
          ELSE FrameClickCatch(p)
    /\ UNCHANGED <<callVars, client, trace, script, window>>

\* `await element.click()` ends
FrameClickActed(p) ==
    /\ frames[p].op = "safeClick"
    /\ frames[p].pc = "Acting"
    /\ \E clicked \in BOOLEAN :
        IF clicked
          THEN frames' = Put(p, [frames[p] EXCEPT !.results = Append(@, "ok"),
                                                 !.pc = "Success"],
                            Counter(p))
          ELSE FrameClickCatch(p)
    /\ UNCHANGED <<callVars, client, trace, script, window>>

\* `await browser.pause(1000)` ends; i++; i < retries
FrameClickRetry(p) ==
    /\ frames[p].op = "safeClick"
    /\ frames[p].pc = "RetryPending"
    /\ frames' = IF Counter(p) + 1 < frames[p].budget
                   THEN Put(p, [frames[p] EXCEPT !.pc = "AwaitingReady",
                                                !.started = @ + 1],
                            Counter(p) + 1)
                   ELSE Put(p, [frames[p] EXCEPT !.pc = "Success"], Counter(p) + 1)
    /\ UNCHANGED <<callVars, client, trace, script, window>>

\* waitWithBackoff(condition, maxAttempts): let attempt = 1; attempt <= maxAttempts
FrameBackoffCall(p) ==
    /\ frames[p].pc = "Idle"
    /\ \E maxAttempts \in MaxAttemptsArgs :
        frames' = Put(p, [frames[p] EXCEPT !.op = "waitWithBackoff",
                                          !.budget = maxAttempts,
                                          !.results = <<>>,
                                          !.started = IF BackoffContinues(1, maxAttempts)
                                                        THEN 1 ELSE 0,
                                          !.pc = IF BackoffContinues(1, maxAttempts)
                                                   THEN "Evaluating" ELSE "Failed"],
                      1)
    /\ UNCHANGED <<callVars, client, trace, script, window>>

\* attempt++; attempt <= maxAttempts
FrameBackoffLoop(p, f) ==
    IF BackoffContinues(Counter(p) + 1, f.budget)
      THEN Put(p, [f EXCEPT !.pc = "Evaluating", !.started = @ + 1], Counter(p) + 1)
      ELSE Put(p, [f EXCEPT !.pc = "Failed"], Counter(p) + 1)

\* `await condition()` ends
FrameBackoffEvaluated(p) ==
    /\ frames[p].op = "waitWithBackoff"
    /\ frames[p].pc = "Evaluating"
    /\ \E result \in CondResult :
        LET f == [frames[p] EXCEPT !.results = Append(@, result)] IN
        frames' = CASE BackoffOutcome(result) = "return" ->
                         Put(p, [f EXCEPT !.pc = "Success"], Counter(p))
                    [] BackoffOutcome(result) = "raise" ->
                         Put(p, [f EXCEPT !.pc = "Failed"], Counter(p))
                    [] BackoffOutcome(result) = "continue"
                         /\ BackoffPauses(Counter(p), f.budget) ->
                         Put(p, [f EXCEPT !.pc = "Pausing"], Counter(p))
                    [] OTHER -> FrameBackoffLoop(p, f)
    /\ UNCHANGED <<callVars, client, trace, script, window>>

\* `await browser.pause(delay)` ends
FrameBackoffPaused(p) ==
    /\ frames[p].op = "waitWithBackoff"
    /\ frames[p].pc = "Pausing"
    /\ frames' = FrameBackoffLoop(p, frames[p])
    /\ UNCHANGED <<callVars, client, trace, script, window>>

\* The caller of p resumes; the locals of the invocation are gone
FrameReturn(p) ==
    /\ frames[p].pc \in Terminal
    /\ frames' = [frames EXCEPT ![p] = NoFrame]
    /\ UNCHANGED <<callVars, client, trace, script, window>>

InterleavedNext ==
    \E p \in Invocations :
        \/ FrameClickCall(p)
        \/ FrameClickReady(p)
        \/ FrameClickActed(p)
        \/ FrameClickRetry(p)
        \/ FrameBackoffCall(p)
        \/ FrameBackoffEvaluated(p)
        \/ FrameBackoffPaused(p)
        \/ FrameReturn(p)

InterleavedSpec == Init /\ [][InterleavedNext]_vars

----------------------------------------------------------------------------
(* The headers of BaseApiClient: setAuth, clearAuth, setTimeout, setHeader,  *)
(* removeHeader, and the beginning of request up to the call of fetch.  The  *)
(* rest of request (ApiFetched, ApiBodyRead) reads no field of the client.   *)

AuthTypes == {"Bearer", "Basic", "ApiKey"}
Tokens == {"tok-1"}
Timeouts == {DefaultTimeout, 5000}

\* The default headers callers set and remove
SettableNames == {"Authorization", "x-api-key", "Content-Type"}
SettableValues == {<<"custom">>}

\* The methods that hand their headers argument to request; put, delete and
\* patch do it as post and get do
RequestOps == {"get", "post", "downloadFile"}

\* The headers objects callers give with one request
RequestHeaders ==
    {NoHeaders} \cup
    {[k \in {name} |-> <<"Bearer", "tok-2">>] :
        name \in {"Authorization", "authorization", "X-API-Key", "x-api-key",
                  "Cookie", "cookie"}}

\* const sensitiveHeaders = ['authorization', 'x-api-key', 'cookie']
SensitiveHeaders == {"authorization", "x-api-key", "cookie"}

Redacted == <<"***REDACTED***">>

\* sanitizeHeaders: a copy in which sanitized[header], if truthy, is redacted
\* for each header of sensitiveHeaders
SanitizeHeaders(headers) ==
    [k \in DOMAIN headers |->
        IF k \in SensitiveHeaders /\ headers[k] # <<>> THEN Redacted ELSE headers[k]]

\* Variant: the defaults win over the headers given with the request
RequestHeadersDefaultsLast(defaults, given) == Merge(given, defaults)

\* const headers = { ...this.defaultHeaders, ...config.headers }
RequestHeadersOf(defaults, given) == Merge(defaults, given)

\* request(config) up to `fetch(url, requestOptions)`: the 'API Request' log
\* entry and the request options
Send(op, headers) ==
    /\ trace' = [trace EXCEPT !.op = op,
                              !.tick = ~@,
                              !.given = headers,
                              !.logged = SanitizeHeaders(headers),
                              !.sent = RequestHeadersOf(client.defaultHeaders, headers)]
    /\ client' = client

SetAuth ==
    /\ \E token \in Tokens, type \in AuthTypes :
        /\ client' = [client EXCEPT !.defaultHeaders =
                                      With(@, "Authorization", <<type, token>>)]
        /\ trace' = [trace EXCEPT !.lastAuth = <<type, token>>]
    /\ UNCHANGED <<callVars, frames, script, window>>

ClearAuth ==
    /\ client' = [client EXCEPT !.defaultHeaders = Without(@, "Authorization")]
    /\ trace' = [trace EXCEPT !.lastAuth = <<>>]
    /\ UNCHANGED <<callVars, frames, script, window>>

SetTimeout ==
    /\ \E timeout \in Timeouts : client' = [client EXCEPT !.timeout = timeout]
    /\ UNCHANGED <<callVars, frames, trace, script, window>>

SetHeader ==
    /\ \E key \in SettableNames, value \in SettableValues :
        /\ client' = [client EXCEPT !.defaultHeaders = With(@, key, value)]
        /\ trace' = IF key = "Authorization"
                      THEN [trace EXCEPT !.lastAuth = value] ELSE trace
    /\ UNCHANGED <<callVars, frames, script, window>>

RemoveHeader ==
    /\ \E key \in SettableNames :
        /\ client' = [client EXCEPT !.defaultHeaders = Without(@, key)]
        /\ trace' = IF key = "Authorization"
                      THEN [trace EXCEPT !.lastAuth = <<>>] ELSE trace
    /\ UNCHANGED <<callVars, frames, script, window>>

\* request, get, post, put, delete, patch, downloadFile with the caller's headers
ClientRequest ==
    /\ \E op \in RequestOps, headers \in RequestHeaders : Send(op, headers)
    /\ UNCHANGED <<callVars, frames, script, window>>

\* uploadFile: headers = { ...this.defaultHeaders }; delete headers['Content-Type'];
\* request({ method: 'POST', url, data: formData, headers })
UploadFile ==
    /\ Send("uploadFile", Without(client.defaultHeaders, "Content-Type"))
    /\ UNCHANGED <<callVars, frames, script, window>>

ClientNext ==
    \/ SetAuth
    \/ ClearAuth
    \/ SetTimeout
    \/ SetHeader
    \/ RemoveHeader
    \/ ClientRequest
    \/ UploadFile

ClientSpec == Init /\ [][ClientNext]_vars

----------------------------------------------------------------------------
(* Callers that await several calls in a row: LoginPage.login, and the       *)
(* first two steps of the scenario 'Login with empty credentials'.  An       *)
(* awaited call that raises ends the method (it has no try / catch), and a   *)
(* step that raises ends the scenario.                                       *)

ScriptNames == {"login", "emptyCredentials"}

LoginButton == "[data-testid=login-button]"

StepOf(kind, selector) == [kind |-> kind, selector |-> selector]

\* What the caller awaits, in order
StepsOf(s) ==
    IF s.name = "login"
      THEN <<StepOf("safeType", "#email"), StepOf("safeType", "#password")>>
           \o (IF s.rememberMe THEN <<StepOf("safeClick", "#remember-me")>> ELSE <<>>)
           \o <<StepOf("safeClick", LoginButton),
                StepOf("waitForLoginCompletion", "[data-testid=loading-spinner]")>>
      ELSE <<StepOf("safeClick", LoginButton),
             StepOf("isLoginButtonEnabled", LoginButton)>>

\* login(email, password, rememberMe), or the scenario, begins
ScriptCall ==
    /\ pc = "Idle"
    /\ script = NoScript
    /\ \E name \in ScriptNames, rememberMe \in BOOLEAN, buttonEnabled \in BOOLEAN :
        /\ name = "emptyCredentials" => ~rememberMe
        /\ script' = [NoScript EXCEPT !.name = name, !.rememberMe = rememberMe,
                                      !.buttonEnabled = buttonEnabled,
                                      !.at = 1, !.status = "running"]
    /\ UNCHANGED <<callVars, frames, client, trace, window>>

\* The caller makes the call it is to await next.  A disabled button never
\* becomes clickable
StepBegin ==
    LET step == StepsOf(script)[script.at] IN
    /\ pc = "Idle"
    /\ script.status = "running"
    /\ \/ /\ step.kind = "safeType"
          /\ \E b \in TypeBehaviour :
                Enter([op |-> "safeType", selector |-> step.selector, text |-> "text",
                       dom |-> [j \in 1 .. MaxRetries |-> b]],
                      "Resolving", <<>>, 0, NoError)
       \/ /\ step.kind = "safeClick"
          /\ \E dom \in [1 .. MaxRetries -> ClickBehaviour] :
                /\ (step.selector = LoginButton /\ ~script.buttonEnabled) =>
                       \A j \in 1 .. MaxRetries : dom[j] = "notClickable"
                /\ Enter([op |-> "safeClick", selector |-> step.selector,
                          retries |-> DefaultRetries, dom |-> dom],
                         "Resolving", <<>>, 0, NoError)
       \/ /\ step.kind = "waitForLoginCompletion"
          /\ \E outcome \in {"satisfied", "timeout"} :
                Enter([op |-> "waitForLoginCompletion", outcome |-> outcome],
                      "Completing", <<>>, 0, NoError)
       \/ /\ step.kind = "isLoginButtonEnabled"
          /\ Enter([op |-> "isLoginButtonEnabled", selector |-> step.selector],
                   "Checking", <<>>, 0, NoError)
    /\ script' = script

\* waitForLoginCompletion: `await browser.waitUntil(...)` ends
CompletionDone ==
    /\ call.op = "waitForLoginCompletion"
    /\ pc = "Completing"
    /\ IF call.outcome = "satisfied"
         THEN /\ pc' = "Success"
              /\ thrown' = thrown
         ELSE /\ pc' = "Failed"
              /\ thrown' = [name |-> "Error",
                            message |-> <<Text("Login process did not complete within 15 seconds")>>]
    /\ UNCHANGED <<call, i, element, log, pauses, evals, resolutions, acts, prev,
                   returned, frames, client, trace, script, window>>

\* isLoginButtonEnabled: `await element.isEnabled()` ends
ButtonChecked ==
    /\ call.op = "isLoginButtonEnabled"
    /\ pc = "Checking"
    /\ returned' = [kind |-> "boolean", value |-> script.buttonEnabled]
    /\ pc' = "Success"
    /\ UNCHANGED <<call, i, element, thrown, log, pauses, evals, resolutions, acts, prev,
                   frames, client, trace, script, window>>

\* expect(isEnabled).toBe(false) of the step 'the login button should be disabled'
Expectation ==
    [name |-> "Error", message |-> <<Text("expect(received).toBe(expected)")>>]

\* Variant: the caller goes on whatever the awaited call did
AfterStepSwallowed(ok, last) == IF last THEN "passed" ELSE "running"

\* What the caller does once the awaited call has ended
AfterStep(ok, last) ==
    IF ~ok THEN "failed" ELSE IF last THEN "passed" ELSE "running"

\* The awaited call has returned or raised and the caller resumes
StepEnd ==
    LET step == StepsOf(script)[script.at]
        ok == /\ pc = "Success"
              /\ step.kind = "isLoginButtonEnabled" => returned.value = FALSE
        status == AfterStep(ok, script.at = Len(StepsOf(script)))
    IN
    /\ script.status = "running"
    /\ Leave(Summary)
    /\ script' = [script EXCEPT
                     !.done = Append(@, [kind |-> step.kind, selector |-> step.selector,
                                         outcome |-> IF ok THEN "returned" ELSE "raised"]),
                     !.at = IF status = "running" THEN @ + 1 ELSE @,
                     !.status = status,
                     !.error = IF status # "failed" THEN @
                               ELSE IF pc = "Failed" THEN thrown ELSE Expectation]

\* The method returns or raises to its caller; the scenario is over
ScriptReturn ==
    /\ pc = "Idle"
    /\ script.status \in {"passed", "failed"}
    /\ script' = NoScript
    /\ UNCHANGED <<callVars, frames, client, trace, window>>

ScriptNext ==
    \/ ScriptCall
    \/ StepBegin
    \/ SafeTypeResolved
    \/ SafeTypeReady
    \/ SafeTypeCleared
    \/ SafeTypeActed
    \/ SafeClickResolved
    \/ SafeClickReady
    \/ SafeClickActed
    \/ SafeClickRetry
    \/ CompletionDone
    \/ ButtonChecked
    \/ StepEnd
    \/ ScriptReturn

ScriptSpec == Init /\ [][ScriptNext]_vars

----------------------------------------------------------------------------
(* ScreenshotUtils.takeFullPageScreenshot: try { measure the body and the    *)
(* window; enlarge the window; save; restore; info; return filePath }        *)
(* catch { error; throw }                                                    *)

\* document.body.scrollHeight of the page shown
BodyHeights == {600, 2400}

\* The height of the browser's own bars: what window.innerHeight lacks of
\* the height of the window (none in a headless browser)
BarHeights == {0, 120}

\* The driver call of the method that raises, if any
ShotFailures == {"none", "bodyHeight", "windowHeight", "enlarge", "save", "restore"}

ScreenshotWidth == 1920    \* browser.setWindowSize(1920, ...)

\* catch (error) { logger.error('Failed to take full page screenshot'); throw error }
ShotCatch(src) ==
    /\ log' = Append(log, LogEntry("error", <<"Failed to take full page screenshot">>))
    /\ thrown' = DriverError(src, "", 0)
    /\ pc' = "Failed"

\* One driver call of the method ends: it raises, or the method goes on
ShotStep(at, src, next) ==
    /\ call.op = "takeFullPageScreenshot"
    /\ pc = at
    /\ IF call.fails = src
         THEN /\ ShotCatch(src)
              /\ UNCHANGED <<evals, window, returned>>
         ELSE next

ShotCall ==
    /\ pc = "Idle"
    /\ window.height > MinHeight
    /\ \E bodyHeight \in BodyHeights, bars \in BarHeights, fails \in ShotFailures :
        Begin([op |-> "takeFullPageScreenshot", bodyHeight |-> bodyHeight,
               bars |-> bars, fails |-> fails, before |-> window],
              "MeasuringBody", <<>>, 0, NoError)

\* const bodyHeight = await browser.execute(() => document.body.scrollHeight)
ShotBodyMeasured ==
    /\ ShotStep("MeasuringBody", "bodyHeight",
                /\ evals' = <<call.bodyHeight>>
                /\ pc' = "MeasuringWindow"
                /\ UNCHANGED <<thrown, log, window, returned>>)
    /\ UNCHANGED <<call, i, element, pauses, resolutions, acts, prev, frames, client,
                   trace, script>>

\* const windowHeight = await browser.execute(() => window.innerHeight)
ShotWindowMeasured ==
    /\ ShotStep("MeasuringWindow", "windowHeight",
                /\ evals' = Append(evals, window.height - call.bars)
                /\ pc' = "Enlarging"
                /\ UNCHANGED <<thrown, log, window, returned>>)
    /\ UNCHANGED <<call, i, element, pauses, resolutions, acts, prev, frames, client,
                   trace, script>>

\* await browser.setWindowSize(1920, bodyHeight)
ShotEnlarged ==
    /\ ShotStep("Enlarging", "enlarge",
                /\ window' = [width |-> ScreenshotWidth, height |-> evals[1]]
                /\ pc' = "Saving"
                /\ UNCHANGED <<thrown, log, evals, returned>>)
    /\ UNCHANGED <<call, i, element, pauses, resolutions, acts, prev, frames, client,
                   trace, script>>

\* await browser.saveScreenshot(filePath)
ShotSaved ==
    /\ ShotStep("Saving", "save",
                /\ pc' = "Restoring"
                /\ UNCHANGED <<thrown, log, evals, window, returned>>)
    /\ UNCHANGED <<call, i, element, pauses, resolutions, acts, prev, frames, client,
                   trace, script>>

\* await browser.setWindowSize(1920, windowHeight); info; return filePath
ShotRestored ==
    /\ ShotStep("Restoring", "restore",
                /\ window' = [width |-> ScreenshotWidth, height |-> evals[2]]
                /\ log' = Append(log, LogEntry("info", <<"Full page screenshot saved:">>))
                /\ returned' = [kind |-> "filePath"]
                /\ pc' = "Success"
                /\ UNCHANGED <<thrown, evals>>)
    /\ UNCHANGED <<call, i, element, pauses, resolutions, acts, prev, frames, client,
                   trace, script>>

ShotNext ==
    \/ ShotCall
    \/ ShotBodyMeasured
    \/ ShotWindowMeasured
    \/ ShotEnlarged
    \/ ShotSaved
    \/ ShotRestored
    \/ Return

ShotSpec == Init /\ [][ShotNext]_vars

----------------------------------------------------------------------------
(* WaitUtils.smartWait: browser.waitUntil(async () => { for (const condition *)
(* of conditions) { if (!(await condition())) return false; } return true; })*)
(* The driver calls the function round after round; its wait ends when a    *)
(* round has returned true, or with an error.                                *)

\* Variant: the loop goes on after a condition that returned false
SmartLoopNoStop(result, k, n) ==
    CASE result = "throw" -> "raise"
      [] k = n -> "true"
      [] OTHER -> "next"

\* What the loop does after condition k of n gave the result
SmartLoop(result, k, n) ==
    CASE result = "false" -> "false"
      [] result = "throw" -> "raise"
      [] k = n -> "true"
      [] OTHER -> "next"

\* 'Smart wait conditions not met within timeout'
SmartTimeout ==
    [name |-> "Error", message |-> <<Text("Smart wait conditions not met within timeout")>>]

\* The conditions of the current round evaluated so far
SmartDone == Cardinality({m \in 1 .. Len(evals) : evals[m].round = i})

SmartCall ==
    /\ pc = "Idle"
    /\ \E n \in 0 .. MaxConditions :
         \E results \in [1 .. MaxRounds -> [1 .. n -> CondResult]] :
            Begin([op |-> "smartWait", n |-> n, results |-> results],
                  "Round", <<LogEntry("debug", <<"Executing smart wait with", n, "conditions">>)>>,
                  1, NoError)

\* The driver calls the function: the loop begins, and with no condition
\* the function returns true
SmartRound ==
    /\ call.op = "smartWait"
    /\ pc = "Round"
    /\ pc' = IF call.n = 0 THEN "Success" ELSE "Evaluating"
    /\ UNCHANGED <<call, i, element, thrown, log, pauses, evals, resolutions, acts, prev,
                   returned, frames, client, trace, script, window>>

\* `await condition()` ends
SmartEvaluated ==
    LET k == SmartDone + 1
        result == call.results[i][k]
        todo == SmartLoop(result, k, call.n)
    IN
    /\ call.op = "smartWait"
    /\ pc = "Evaluating"
    /\ evals' = Append(evals, [round |-> i, index |-> k, result |-> result])
    /\ pc' = CASE todo = "next" -> "Evaluating"
              [] todo = "true" -> "Success"
              [] todo = "false" -> "Polling"
              [] todo = "raise" -> "Rejected"
    /\ UNCHANGED <<call, i, element, thrown, log, pauses, resolutions, acts, prev,
                   returned, frames, client, trace, script, window>>

\* After a round that did not return true the driver calls the function
\* again, or gives up with the timeout message; after a round that raised it
\* may give up with the error of the condition as well
SmartPolled ==
    /\ call.op = "smartWait"
    /\ pc \in {"Polling", "Rejected"}
    /\ \/ /\ i < MaxRounds
          /\ i' = i + 1
          /\ pc' = "Round"
          /\ thrown' = thrown
       \/ /\ pc' = "Failed"
          /\ thrown' = SmartTimeout
          /\ i' = i
       \/ /\ pc = "Rejected"
          /\ pc' = "Failed"
          /\ thrown' = ConditionError(SmartDone)
          /\ i' = i
    /\ UNCHANGED <<call, element, log, pauses, evals, resolutions, acts, prev,
                   returned, frames, client, trace, script, window>>

SmartNext ==
    \/ SmartCall
    \/ SmartRound
    \/ SmartEvaluated
    \/ SmartPolled
    \/ Return

SmartSpec == Init /\ [][SmartNext]_vars

----------------------------------------------------------------------------
(* The step 'I click the login button': safeClick with its default retries,  *)
(* with the time its driver calls take                                       *)

\* How long a readiness wait that succeeds takes, and how long a click takes
ReadyTimes == {0, ReadyTimeout}
ClickTimes == {200, CommandTimeout}

TimedClickCall ==
    /\ pc = "Idle"
    /\ \E sel \in Selectors, dom \in [1 .. MaxRetries -> ClickBehaviour],
          readyTime \in ReadyTimes, clickTime \in ClickTimes :
        Begin([op |-> "safeClick", selector |-> sel, retries |-> DefaultRetries,
               dom |-> dom, readyTime |-> readyTime, clickTime |-> clickTime],
              "Resolving", <<>>, 0, NoError)

TimedNext ==
    \/ TimedClickCall
    \/ SafeClickResolved
    \/ SafeClickReady
    \/ SafeClickActed
    \/ SafeClickRetry
    \/ Return

TimedSpec == Init /\ [][TimedNext]_vars

----------------------------------------------------------------------------
Next ==
    \/ SafeClickCall
    \/ SafeClickResolved
    \/ SafeClickReady
    \/ SafeClickActed
    \/ SafeClickRetry
    \/ SafeTypeCall
    \/ SafeTypeResolved
    \/ SafeTypeReady
    \/ SafeTypeCleared
    \/ SafeTypeActed
    \/ DisappearCall
    \/ DisappearResolved
    \/ DisappearWaited
    \/ BackoffCall
    \/ BackoffEvaluated
    \/ BackoffPaused
    \/ PollingCall
    \/ PollingDone
    \/ ApiCall
    \/ ApiUrlBuilt
    \/ ApiFetched
    \/ ApiBodyRead
    \/ DownloadResumed
    \/ Return

Spec == Init /\ [][Next]_vars

\* The steps that continue a call which is under way
Continue ==
    \/ SafeClickResolved
    \/ SafeClickReady
    \/ SafeClickActed
    \/ SafeClickRetry
    \/ SafeTypeResolved
    \/ SafeTypeReady
    \/ SafeTypeCleared
    \/ SafeTypeActed
    \/ DisappearResolved
    \/ DisappearWaited
    \/ BackoffEvaluated
    \/ BackoffPaused
    \/ PollingDone
    \/ ApiUrlBuilt
    \/ ApiFetched
    \/ ApiBodyRead
    \/ DownloadResumed
    \/ Return

\* Every driver call and timer completes and the event loop runs every pending
\* continuation: a call that can continue eventually does
FairSpec == Spec /\ WF_vars(Continue)

----------------------------------------------------------------------------
(* Properties of safeClick *)

IsClick == call.op = "safeClick"

\* The first attempt of the running safeClick call that the page lets succeed
\* (0 when none does)
FirstOk ==
    LET ok == {j \in 1 .. MaxRetries : call.dom[j] = "ok"}
    IN IF ok = {} THEN 0 ELSE CHOOSE j \in ok : \A k \in ok : j <= k

\* The error the driver raises in attempt j of the running safeClick call
ClickErrorOf(j) ==
    DriverError(IF call.dom[j] \in {"absent", "notClickable"}
                  THEN "waitForClickable" ELSE "click",
                call.selector, j)

\* C1: safeClick(selector, n), n >= 1, whose attempts 1..j-1 fail and whose
\* attempt j <= n succeeds never raises and never starts attempt j+1, and when
\* it has returned its log holds exactly j-1 warn entries and exactly 1 info
\* entry (2 warn and 1 info for n = 3, j = 3).
C1_SuccessOnAttemptJ ==
    (IsClick /\ call.retries >= 1 /\ FirstOk >= 1 /\ FirstOk <= call.retries) =>
        /\ pc # "Failed"
        /\ thrown = NoError
        /\ i + 1 <= FirstOk
        /\ resolutions <= FirstOk
        /\ pc = "Success" =>
            /\ i + 1 = FirstOk
            /\ CountLevel("warn") = FirstOk - 1
            /\ CountLevel("info") = 1
            /\ Len(log) = FirstOk
            /\ log[Len(log)].level = "info"

C1_Witness ==
    /\ IsClick
    /\ call.retries = DefaultRetries
    /\ FirstOk = 3
    /\ pc = "Success"
    /\ CountLevel("warn") = 2
    /\ CountLevel("info") = 1

\* C2 as claimed: when every attempt of safeClick(selector, n), n >= 1, fails,
\* the caller receives an InteractionFailed error holding the attempt count n
\* and the error of the n-th attempt.
C2_RaisesInteractionFailed ==
    (IsClick /\ call.retries >= 1 /\ pc = "Failed") =>
        /\ thrown.name = "InteractionFailed"
        /\ thrown.attempts = call.retries
        /\ thrown.lastError = ClickErrorOf(call.retries)

\* C2 as amended: when every attempt of safeClick(selector, n), n >= 1, fails,
\* the caller receives the error of the n-th attempt itself, unchanged and
\* unwrapped, never the error of an earlier attempt; the attempt number and the
\* locator are carried by the warn entry logged for each failed attempt, the
\* last of which holds n, the locator and the raised error.
C2_RaisesLastError ==
    (IsClick /\ call.retries >= 1) =>
        /\ (FirstOk = 0 \/ FirstOk > call.retries) => pc # "Success"
        /\ pc = "Failed" =>
            /\ FirstOk = 0 \/ FirstOk > call.retries
            /\ i + 1 = call.retries
            /\ thrown = ClickErrorOf(call.retries)
            /\ \A j \in 1 .. call.retries - 1 : thrown # ClickErrorOf(j)
            /\ Len(log) = call.retries
            /\ \A j \in 1 .. call.retries :
                   log[j] = LogEntry("warn", <<"Click attempt", j, "failed for",
                                               call.selector, ClickErrorOf(j)>>)

C2_Witness ==
    /\ IsClick
    /\ call.retries = DefaultRetries
    /\ pc = "Failed"
    /\ call.dom[1] = "absent"
    /\ call.dom[3] = "clickFails"
    /\ thrown = DriverError("click", call.selector, 3)

\* C3: when the locator matches no element during attempts 1 and 2 of
\* safeClick(selector, 3) and one clickable element during attempt 3, no error
\* reaches the caller and the call succeeds in attempt 3, clicking the element
\* resolved in that attempt: the failed resolutions are retried.
C3_ResolutionRetried ==
    (/\ IsClick
     /\ call.retries = DefaultRetries
     /\ call.dom[1] = "absent"
     /\ call.dom[2] = "absent"
     /\ call.dom[3] = "ok") =>
        /\ pc # "Failed"
        /\ thrown = NoError
        /\ pc = "RetryPending" => Len(pauses) = i + 1
        /\ pc = "Success" =>
            /\ resolutions = 3
            /\ acts = <<[prim |-> "click",
                         element |-> [sel |-> call.selector, at |-> 3, exists |-> TRUE],
                         attempt |-> 3]>>
            /\ pauses = <<RetryDelay, RetryDelay>>

C3_Witness ==
    /\ IsClick
    /\ call.retries = DefaultRetries
    /\ call.dom[1] = "absent"
    /\ call.dom[2] = "absent"
    /\ call.dom[3] = "ok"
    /\ pc = "Success"
    /\ resolutions = 3

----------------------------------------------------------------------------
(* Properties of waitForElementToDisappear and safeType *)

\* C4: a Timeout of a wait is always surfaced to the caller: when the element
\* stays displayed for the whole timeout, waitForElementToDisappear ends by
\* raising, never by returning normally.
C4_TimeoutSurfaced ==
    (/\ call.op = "waitForElementToDisappear"
     /\ call.dom = "stays"
     /\ pc \in Terminal) =>
        /\ pc = "Failed"
        /\ thrown # NoError

IsType == call.op = "safeType"

\* The error the driver raises during the running safeType call
TypeErrorOf(j) ==
    DriverError(CASE call.dom[j] \in {"absent", "notVisible"} -> "waitForDisplayed"
                  [] call.dom[j] = "clearFails" -> "clearValue"
                  [] OTHER -> "setValue",
                call.selector, j)

\* C5 as claimed: safeType retries like safeClick, so a call whose first
\* attempt fails and whose second attempt would succeed does not raise.
C5_TypeRetried ==
    (IsType /\ call.dom[1] # "ok" /\ call.dom[2] = "ok") => pc # "Failed"

\* C5 as amended: safeType makes a single attempt: it resolves the target once,
\* waits for it to be visible, clears it and sets the value; the first error
\* (readiness wait, clearValue or setValue) is raised to the caller at once,
\* unchanged, with no retry, no pause and no warn entry.
C5_TypeSingleAttempt ==
    IsType =>
        /\ resolutions <= 1
        /\ pauses = <<>>
        /\ CountLevel("warn") = 0
        /\ \A k \in 1 .. Len(acts) : acts[k].attempt = 1
        /\ pc = "Failed" =>
            /\ call.dom[1] # "ok"
            /\ thrown = TypeErrorOf(1)
            /\ resolutions = 1
            /\ log = <<>>
        /\ pc = "Success" =>
            /\ call.dom[1] = "ok"
            /\ thrown = NoError
            /\ Len(acts) = 2
            /\ acts[1].prim = "clearValue"
            /\ acts[2].prim = "setValue"
            /\ CountLevel("info") = 1

C5_Witness ==
    /\ IsType
    /\ call.dom[1] = "clearFails"
    /\ call.dom[2] = "ok"
    /\ pc = "Failed"
    /\ resolutions = 1
    /\ thrown = DriverError("clearValue", call.selector, 1)

----------------------------------------------------------------------------
(* Properties of waitWithBackoff *)

IsBackoff == call.op = "waitWithBackoff"

\* The first evaluation in which the condition of the running call returns
\* true (0 when it never does)
FirstTrue ==
    LET t == {k \in 1 .. MaxAttempts : call.condition[k] = "true"}
    IN IF t = {} THEN 0 ELSE CHOOSE k \in t : \A m \in t : k <= m

\* The condition does not return true within the attempt budget
NeverTrue == \A k \in 1 .. call.maxAttempts : call.condition[k] # "true"

BackoffRunning == IsBackoff /\ pc \in {"Evaluating", "Pausing"}

\* C6: the pause after failed attempt n and before attempt n+1 is
\* baseDelay * 2^(n-1): no pause before attempt 1, none after the last attempt,
\* and for baseDelay = 1000, maxAttempts = 5 and a condition that never holds
\* the pauses are exactly 1000, 2000, 4000, 8000 ms.
C6_BackoffDelays ==
    IsBackoff =>
        /\ \A n \in 1 .. Len(pauses) : pauses[n] = call.baseDelay * Pow(2, n - 1)
        /\ pc = "Evaluating" => Len(pauses) = i - 1 /\ Len(evals) = i - 1
        /\ pc = "Pausing" =>
            Len(pauses) = i /\ Len(evals) = i /\ i + 1 <= call.maxAttempts
        /\ pc \in Terminal =>
            \/ evals = <<>> /\ pauses = <<>>
            \/ Len(pauses) = Len(evals) - 1
        /\ (/\ call.baseDelay = DefaultBaseDelay
            /\ call.maxAttempts = DefaultMaxAttempts
            /\ pc = "Failed") => pauses = <<1000, 2000, 4000, 8000>>

C6_Witness ==
    /\ IsBackoff
    /\ call.baseDelay = DefaultBaseDelay
    /\ call.maxAttempts = DefaultMaxAttempts
    /\ pc = "Failed"
    /\ pauses = <<1000, 2000, 4000, 8000>>

\* C7: when the condition first returns true on its k-th evaluation and
\* k <= maxAttempts, the wait returns success after exactly k evaluations: it
\* never raises, never returns before the k-th evaluation and never evaluates
\* the condition after it.
C7_ReturnsAtFirstTrue ==
    (/\ IsBackoff
     /\ call.maxAttempts >= 1
     /\ FirstTrue >= 1
     /\ FirstTrue <= call.maxAttempts) =>
        /\ pc # "Failed"
        /\ Len(evals) <= FirstTrue
        /\ Len(evals) = FirstTrue => pc = "Success"
        /\ pc = "Success" =>
            /\ Len(evals) = FirstTrue
            /\ evals[Len(evals)] = "true"
            /\ \A k \in 1 .. Len(evals) - 1 : evals[k] # "true"

C7_Witness ==
    /\ IsBackoff
    /\ call.maxAttempts = 4
    /\ FirstTrue = 3
    /\ pc = "Success"
    /\ Len(evals) = 3

\* What C8 says of every state: a wait whose condition never returns true does
\* not return, evaluates the condition at most maxAttempts times, and when it
\* has raised, it raised the timeout error after exactly maxAttempts
\* evaluations and maxAttempts - 1 pauses.
NeverTrueEndsInTimeout ==
    (IsBackoff /\ call.maxAttempts >= 1 /\ NeverTrue) =>
        /\ pc # "Success"
        /\ Len(evals) <= call.maxAttempts
        /\ pc = "Failed" =>
            /\ thrown = BackoffTimeout(call.maxAttempts)
            /\ Len(evals) = call.maxAttempts
            /\ Len(pauses) = call.maxAttempts - 1

\* C8: with a condition that never returns true, waitWithBackoff with
\* maxAttempts >= 1 always terminates by raising the timeout error, after
\* exactly maxAttempts evaluations and exactly maxAttempts - 1 pauses.
C8_TimeoutAfterMaxAttempts ==
    /\ []NeverTrueEndsInTimeout
    /\ (BackoffRunning /\ call.maxAttempts >= 1 /\ NeverTrue) ~> (pc = "Failed")

C8_Witness ==
    /\ IsBackoff
    /\ call.maxAttempts = 3
    /\ NeverTrue
    /\ pc = "Failed"
    /\ Len(evals) = 3
    /\ Len(pauses) = 2

\* The condition throws on its first j evaluations and returns true on the next
ThrowsThenTrue(j) ==
    /\ \A k \in 1 .. j : call.condition[k] = "throw"
    /\ call.condition[j + 1] = "true"

C10_AlreadyTrueTwice ==
    /\ (IsBackoff /\ call.maxAttempts >= 1 /\ call.condition[1] = "true") =>
        /\ pc \in {"Evaluating", "Success"}
        /\ pauses = <<>>
        /\ thrown = NoError
        /\ pc = "Evaluating" => evals = <<>>
        /\ pc = "Success" => evals = <<"true">>
    /\ prev.alreadyTrue => prev.immediate

C10_Witness ==
    /\ prev.op = "waitWithBackoff"
    /\ prev.alreadyTrue
    /\ prev.immediate
    /\ IsBackoff
    /\ call.maxAttempts >= 1
    /\ call.condition[1] = "true"
    /\ pc = "Success"
    /\ evals = <<"true">>
    /\ pauses = <<>>

----------------------------------------------------------------------------
(* Further properties of safeClick *)

\* The attempts of the running safeClick call that have failed so far
FailedAttempts == IF pc \in {"RetryPending", "Failed"} THEN i + 1 ELSE i

\* C11 as claimed: a safeClick whose every attempt fails ends with an
\* error-level log entry (besides one warn entry per failed attempt).
C11_ErrorLoggedOnExhaustion ==
    (IsClick /\ call.retries >= 1 /\ pc = "Failed") =>
        /\ CountLevel("error") = 1
        /\ log[Len(log)].level = "error"

\* C11 as amended: per safeClick call the log receives one info entry for the
\* successful click and one warn entry for each failed attempt, the last one
\* included, and never an error-level entry: a safeClick whose every attempt
\* fails ends with n warn entries, the last of them for attempt n, and raises.
C11_LogLevels ==
    (IsClick /\ call.retries >= 1) =>
        /\ CountLevel("error") = 0
        /\ \A k \in 1 .. Len(log) : log[k].level \in {"warn", "info"}
        /\ CountLevel("warn") = FailedAttempts
        /\ CountLevel("info") = IF pc = "Success" THEN 1 ELSE 0
        /\ pc = "Failed" =>
            /\ CountLevel("warn") = call.retries
            /\ log[Len(log)].level = "warn"
            /\ log[Len(log)].msg[2] = call.retries

C11_Witness ==
    /\ IsClick
    /\ call.retries = DefaultRetries
    /\ pc = "Failed"
    /\ CountLevel("warn") = 3
    /\ CountLevel("error") = 0

\* C12: safeClick pauses 1000 ms after every failed attempt that is not the
\* last one, never after the last attempt and never after a success: a call
\* whose n attempts all fail has taken exactly n-1 pauses when it raises, and
\* it raises in the step in which the n-th attempt fails.
C12_PauseBetweenAttempts ==
    (IsClick /\ call.retries >= 1) =>
        /\ \A k \in 1 .. Len(pauses) : pauses[k] = 1000
        /\ pc = "RetryPending" => Len(pauses) = i + 1 /\ i + 1 < call.retries
        /\ pc \in {"Resolving", "AwaitingReady", "Acting", "Success"} => Len(pauses) = i
        /\ pc = "Failed" =>
            /\ i + 1 = call.retries
            /\ Len(pauses) = call.retries - 1
            /\ Len(pauses) = CountLevel("warn") - 1

C12_Witness ==
    /\ IsClick
    /\ call.retries = DefaultRetries
    /\ pc = "Failed"
    /\ pauses = <<1000, 1000>>

\* C13: the target is resolved afresh at the start of every attempt of
\* safeClick: the resolutions made equal the attempts started, and the handle
\* clicked in attempt k is the one resolved in attempt k.
C13_FreshResolution ==
    (IsClick /\ call.retries >= 1) =>
        /\ resolutions = IF pc = "Resolving" THEN i ELSE i + 1
        /\ pc \in {"AwaitingReady", "Acting"} =>
            element = [sel |-> call.selector, at |-> i + 1,
                       exists |-> (call.dom[i + 1] # "absent")]
        /\ \A k \in 1 .. Len(acts) :
               /\ acts[k].element.at = acts[k].attempt
               /\ acts[k].element.sel = call.selector
               /\ acts[k].element.exists

C13_Witness ==
    /\ IsClick
    /\ pc = "Success"
    /\ resolutions = 3
    /\ Len(acts) = 2
    /\ acts[1].element.at = 2
    /\ acts[2].element.at = 3

\* The steps a safeClick call may take from one state of its state machine
ClickTransitions ==
    {<<"Resolving", "AwaitingReady">>,
     <<"AwaitingReady", "Acting">>,
     <<"AwaitingReady", "RetryPending">>,
     <<"AwaitingReady", "Failed">>,
     <<"Acting", "Success">>,
     <<"Acting", "RetryPending">>,
     <<"Acting", "Failed">>,
     <<"RetryPending", "Resolving">>}

\* In every attempt the click is invoked only once the readiness wait of that
\* attempt has succeeded
ClickOnlyWhenReady ==
    (IsClick /\ call.retries >= 1) =>
        /\ pc \in {"Resolving", "AwaitingReady", "Acting", "RetryPending"} \cup Terminal
        /\ \A k \in 1 .. Len(acts) :
               /\ acts[k].prim = "click"
               /\ call.dom[acts[k].attempt] \notin {"absent", "notClickable"}
               /\ acts[k].attempt <= resolutions
               /\ k > 1 => acts[k - 1].attempt < acts[k].attempt
        /\ pc = "Acting" => (acts # <<>> /\ acts[Len(acts)].attempt = i + 1)

\* A step of a safeClick call follows the state machine; a call that has ended
\* makes no further driver call, the only step left is the caller's
ClickStep ==
    /\ (call'.op = "safeClick" /\ call' # call) =>
           (pc = "Idle" /\ (call'.retries >= 1 => pc' = "Resolving"))
    /\ (IsClick /\ call.retries >= 1 /\ pc \notin Terminal) =>
           (call' = call /\ <<pc, pc'>> \in ClickTransitions)
    /\ (IsClick /\ pc \in Terminal) =>
           (pc' = "Idle" /\ call' = NoCall)

\* C14: every safeClick call with retries >= 1 follows Idle -> Resolving ->
\* AwaitingReady -> Acting -> {Success | RetryPending -> Resolving | Failed}
\* (a failed readiness wait leaves AwaitingReady for RetryPending or Failed):
\* the click is invoked only after the readiness wait of the same attempt
\* succeeded, the call always ends in Success or Failed provided every driver
\* call returns, and no driver call is made after it ended.
C14_StateMachine ==
    /\ []ClickOnlyWhenReady
    /\ [][ClickStep]_vars
    /\ (IsClick /\ call.retries >= 1 /\ pc \notin Terminal) ~> (pc \in Terminal)

C14_Witness ==
    /\ IsClick
    /\ call.retries = DefaultRetries
    /\ pc = "Success"
    /\ i = 2
    /\ call.dom[1] = "notClickable"
    /\ call.dom[2] = "clickFails"

\* C20: for every integer retries, 0 and negative values included, safeClick
\* returns normally only if a click on the resolved element succeeded during
\* the call.
C20_SuccessImpliesClicked ==
    (IsClick /\ pc = "Success") =>
        \E k \in 1 .. Len(acts) :
            /\ acts[k].prim = "click"
            /\ call.dom[acts[k].attempt] = "ok"

----------------------------------------------------------------------------
(* Properties of the errors raised by the waits *)

IsPolling == call.op = "waitWithPolling"

\* The names of the values interpolated into a message
ArgsOf(message) == {message[k].arg : k \in 1 .. Len(message)} \ {""}

\* C16 as claimed: the error raised when the budget of a wait is exhausted
\* includes the description of the condition waited for and the elapsed time
\* or the attempt count, in waitWithBackoff and in waitWithPolling.
C16_ErrorDescribesCondition ==
    /\ (IsBackoff /\ pc = "Failed") =>
        /\ "condition" \in ArgsOf(thrown.message)
        /\ ArgsOf(thrown.message) \cap {"maxAttempts", "attempt", "elapsed"} # {}
    /\ (IsPolling /\ pc = "Failed" /\ call.outcome = "timeout") =>
        /\ "condition" \in ArgsOf(thrown.message)
        /\ ArgsOf(thrown.message) \cap {"timeout", "elapsed", "attempt"} # {}

\* C16 as amended: the error waitWithBackoff raises when its budget is
\* exhausted includes the attempt budget maxAttempts and nothing else, in
\* particular no description of the condition; the timeout message that
\* waitWithPolling hands to the driver is a fixed text, which includes neither
\* a description of the condition nor an elapsed time or attempt count.
C16_TimeoutMessages ==
    /\ (IsBackoff /\ pc = "Failed") =>
        /\ ArgsOf(thrown.message) = {"maxAttempts"}
        /\ \E k \in 1 .. Len(thrown.message) :
               /\ thrown.message[k].arg = "maxAttempts"
               /\ thrown.message[k].value = call.maxAttempts
               /\ call.maxAttempts >= 1 => thrown.message[k].value = Len(evals)
    /\ IsPolling =>
        /\ ArgsOf(call.options.timeoutMsg) = {}
        /\ (pc = "Failed" /\ call.outcome = "timeout") =>
               /\ thrown.message = call.options.timeoutMsg
               /\ ArgsOf(thrown.message) = {}

C16_Witness ==
    /\ IsBackoff
    /\ pc = "Failed"
    /\ call.maxAttempts = 3
    /\ Len(evals) = 3
    /\ ArgsOf(thrown.message) = {"maxAttempts"}

----------------------------------------------------------------------------
(* Properties of BaseApiClient.request *)

IsApi == call.op \in ApiOps

\* fetch resolved with a response
ResponseReceived == call.urlOk /\ ~call.net.failed

ResponseOk == ResponseReceived /\ Ok(call.net.response.status)

----------------------------------------------------------------------------
(* Properties of overlapping invocations *)

\* The number of attempts an invocation may make
BudgetOf(f) == IF f.budget > 0 THEN f.budget ELSE 0

Succeeded(result) == result \in {"ok", "true"}

\* The attempt state of invocation p, seen from its own results alone
LocalAttempts(p) ==
    LET f == frames[p]
        n == Len(f.results)
    IN
    /\ n <= BudgetOf(f)
    /\ f.started <= BudgetOf(f)
    /\ f.started - n \in {0, 1}
    /\ \A k \in 1 .. n - 1 : ~Succeeded(f.results[k])
    /\ f.pc = "Success" =>
           \/ f.op = "safeClick" /\ f.budget <= 0
           \/ n > 0 /\ Succeeded(f.results[n])
    /\ f.pc = "Failed" =>
           /\ n = BudgetOf(f)
           /\ \A k \in 1 .. n : ~Succeeded(f.results[k])
    /\ f.pc \notin Terminal \cup {"Idle"} =>
           /\ n < BudgetOf(f)
           /\ \A k \in 1 .. n : ~Succeeded(f.results[k])
    /\ (f.op = "safeClick" /\ f.budget > 0) => f.i = f.started - 1
    /\ f.op = "waitWithBackoff" =>
           f.i = IF f.pc = "Failed" THEN f.started + 1 ELSE f.started

\* A call starts with a fresh counter and no attempts made; an attempt starts
\* only when every earlier attempt of the same call has finished; a step of
\* one invocation leaves the other's state alone
LocalStep ==
    /\ \A p \in Invocations :
        /\ (frames[p].pc = "Idle" /\ frames'[p].pc # "Idle") =>
               /\ frames'[p].results = <<>>
               /\ frames'[p].i = IF frames'[p].op = "safeClick" THEN 0 ELSE 1
               /\ frames'[p].started <= 1
        /\ (frames[p].pc # "Idle" /\ frames'[p].started # frames[p].started
            /\ frames'[p].pc # "Idle") =>
               /\ frames[p].started = Len(frames[p].results)
               /\ frames'[p].started = frames[p].started + 1
    /\ \E p \in Invocations :
        \A q \in Invocations \ {p} : frames'[q] = frames[q]

\* C15: attempt state is local to each invocation. When two safeClick or
\* waitWithBackoff calls overlap at their suspension points, or follow one
\* another, each starts with a fresh attempt counter, makes at most its own
\* budget of attempts, ends as the results of its own attempts determine, and
\* starts attempt i+1 only after attempt i has finished.
C15_AttemptStateIsLocal ==
    /\ [](\A p \in Invocations : LocalAttempts(p))
    /\ [][LocalStep]_vars

C15_Witness ==
    /\ frames["first"].op = "safeClick"
    /\ frames["first"].budget = 3
    /\ frames["first"].pc = "RetryPending"
    /\ frames["first"].i = 1
    /\ frames["second"].op = "waitWithBackoff"
    /\ frames["second"].budget = 2
    /\ frames["second"].pc = "Evaluating"
    /\ frames["second"].i = 2
    /\ frames["second"].results = <<"throw">>

----------------------------------------------------------------------------
(* Effects of the clicks of safeClick *)

\* The attempts of the running safeClick call whose click reached the page:
\* the click returned, or raised after the page had already reacted
Effective == {k \in 1 .. Len(acts) : call.dom[acts[k].attempt] \in {"ok", "clickPartial"}}

\* Attempt j of the running call is made and its click raises after its effect
PartialAt(j) ==
    /\ j < call.retries
    /\ call.dom[j] = "clickPartial"
    /\ \A m \in 1 .. j - 1 : call.dom[m] # "ok"

ClickAfterSuccess == (IsClick /\ pc = "Success") => pc' = "Idle"

\* C21: during one safeClick(selector, retries) call click is invoked at most
\* retries times and returns at most once, nothing happens after the click
\* that returned, and a click that raised after causing its effect is invoked
\* again in the next attempt whose readiness wait succeeds.
C21_ClickRepeatedAfterPartialEffect ==
    /\ [](IsClick =>
            /\ Len(acts) <= (IF call.retries > 0 THEN call.retries ELSE 0)
            /\ CountLevel("info") <= 1
            /\ \A k \in 1 .. Len(acts) - 1 : call.dom[acts[k].attempt] # "ok"
            /\ pc \in Terminal =>
                 \A j \in 1 .. MaxRetries - 1 :
                    (PartialAt(j) /\ call.dom[j + 1] \notin {"absent", "notClickable"}) =>
                        \E k \in 1 .. Len(acts) : acts[k].attempt = j + 1)
    /\ [][ClickAfterSuccess]_vars

C21_Witness ==
    /\ IsClick
    /\ call.retries = 2
    /\ call.dom[1] = "clickPartial"
    /\ call.dom[2] = "ok"
    /\ pc = "Success"
    /\ Len(acts) = 2
    /\ Cardinality(Effective) = 2

----------------------------------------------------------------------------
(* Properties of the headers of BaseApiClient *)

\* A header name in lower case (header names are case-insensitive in HTTP)
LowerCase(name) ==
    CASE name \in {"Authorization", "authorization"} -> "authorization"
      [] name \in {"X-API-Key", "x-api-key"} -> "x-api-key"
      [] name \in {"Cookie", "cookie"} -> "cookie"
      [] name = "Content-Type" -> "content-type"
      [] name = "Accept" -> "accept"

Words(value) == {value[k] : k \in 1 .. Len(value)}

\* C22 as claimed: no 'API Request' log entry contains the value of an
\* authorization, x-api-key or cookie header, whatever the letter case of its
\* name: the value is logged as '***REDACTED***'; the token given to setAuth
\* appears in no log entry.
C22_SensitiveHeadersRedacted ==
    \A k \in DOMAIN trace.logged :
        /\ LowerCase(k) \in SensitiveHeaders => trace.logged[k] = Redacted
        /\ Words(trace.logged[k]) \cap Tokens = {}

\* C23 as claimed: the request uploadFile sends carries no Content-Type header
\* taken from the defaults of the client, and every other default header.
C23_UploadOmitsContentType ==
    trace.op = "uploadFile" =>
        /\ "Content-Type" \notin DOMAIN trace.sent
        /\ \A k \in DOMAIN trace.given : trace.sent[k] = trace.given[k]

\* The value under the key Authorization of a headers object (<<>> when absent)
AuthorizationOf(headers) ==
    IF "Authorization" \in DOMAIN headers THEN headers["Authorization"] ELSE <<>>

\* A step in which a request is made
RequestStep == trace'.tick # trace.tick

\* C24: under the key Authorization, the headers request hands to fetch hold
\* the value given with the request when the caller gives one, otherwise the
\* value of the most recent setAuth or setHeader('Authorization', v) that no
\* clearAuth or removeHeader('Authorization') followed, and nothing otherwise;
\* request changes neither the default headers nor the default timeout.
C24_AuthorizationSent ==
    /\ [](AuthorizationOf(client.defaultHeaders) = trace.lastAuth)
    /\ [][RequestStep =>
            /\ AuthorizationOf(trace'.sent) =
                   IF "Authorization" \in DOMAIN trace'.given
                     THEN trace'.given["Authorization"]
                     ELSE trace.lastAuth
            /\ client' = client]_vars

C24_Witness ==
    /\ trace.op = "post"
    /\ trace.given = NoHeaders
    /\ trace.lastAuth = <<"custom">>
    /\ AuthorizationOf(trace.sent) = <<"custom">>
    /\ client.timeout # DefaultTimeout

----------------------------------------------------------------------------
(* Properties of the login flows *)

\* C25 as claimed: in the scenario 'Login with empty credentials', with the
\* login button disabled, the step 'I click the login button' completes
\* without raising and the step 'the login button should be disabled' is
\* reached and passes.
C25_ClickOnDisabledButtonPasses ==
    (/\ script.name = "emptyCredentials"
     /\ ~script.buttonEnabled
     /\ script.status \in {"passed", "failed"}) =>
        /\ script.status = "passed"
        /\ Len(script.done) = 2
        /\ script.done[1].outcome = "returned"

IsLogin == script.name = "login"

\* The selectors login(email, password, rememberMe) acts on, in order
LoginOrder ==
    IF script.rememberMe
      THEN <<"#email", "#password", "#remember-me", LoginButton,
             "[data-testid=loading-spinner]">>
      ELSE <<"#email", "#password", LoginButton, "[data-testid=loading-spinner]">>

LoginKind(selector) ==
    CASE selector \in {"#email", "#password"} -> "safeType"
      [] selector \in {"#remember-me", LoginButton} -> "safeClick"
      [] OTHER -> "waitForLoginCompletion"

\* The error of the call that raised is the error of login
LoginRaises ==
    (IsLogin /\ script.status = "running" /\ pc = "Failed" /\ pc' = "Idle") =>
        /\ script'.status = "failed"
        /\ script'.error = thrown

\* C27: login types the email, types the password, clicks remember-me if and
\* only if rememberMe is true, clicks the login button and waits for the
\* spinner to disappear, in this order; when one of these raises, none of the
\* later ones is begun and login raises the same error.
C27_LoginOrder ==
    /\ [](IsLogin =>
            LET done == script.done
                n == Len(done)
            IN
            /\ n <= Len(LoginOrder)
            /\ \A k \in 1 .. n :
                  /\ done[k].selector = LoginOrder[k]
                  /\ done[k].kind = LoginKind(LoginOrder[k])
            /\ \A k \in 1 .. n - 1 : done[k].outcome = "returned"
            /\ call # NoCall =>
                  /\ script.status = "running"
                  /\ \A k \in 1 .. n : done[k].outcome = "returned"
                  /\ n < Len(LoginOrder)
                  /\ call.op = LoginKind(LoginOrder[n + 1])
                  /\ call.op \in {"safeType", "safeClick"} =>
                         call.selector = LoginOrder[n + 1]
            /\ script.status = "failed" =>
                  /\ n >= 1
                  /\ done[n].outcome = "raised"
                  /\ script.error # NoError
            /\ script.status = "passed" =>
                  /\ n = Len(LoginOrder)
                  /\ done[n].outcome = "returned")
    /\ [][LoginRaises]_vars

C27_Witness ==
    /\ IsLogin
    /\ script.rememberMe
    /\ script.status = "failed"
    /\ Len(script.done) = 2
    /\ script.done[2].selector = "#password"
    /\ script.done[2].outcome = "raised"
    /\ script.error.name = "Error"

----------------------------------------------------------------------------
(* Properties of takeFullPageScreenshot *)

\* C26 as claimed: whenever takeFullPageScreenshot ends, by returning the file
\* path or by raising, the browser window has the height it had before the
\* call.
C26_WindowRestored ==
    (call.op = "takeFullPageScreenshot" /\ pc \in Terminal) =>
        window.height = call.before.height

----------------------------------------------------------------------------
(* Properties of smartWait *)

IsSmart == call.op = "smartWait"

\* The evaluations of round r, in the order they were made
RoundEvals(r) == {m \in 1 .. Len(evals) : evals[m].round = r}

\* C28: smartWait returns only after a round in which every condition, in list
\* order, returned true; in a round no condition is evaluated after one that
\* returned false; with an empty list the first round succeeds.
C28_AllTrueInOneRound ==
    IsSmart =>
        /\ \A m \in 1 .. Len(evals) :
              /\ evals[m].index = Cardinality({q \in RoundEvals(evals[m].round) : q <= m})
              /\ evals[m].index <= call.n
              /\ evals[m].result = call.results[evals[m].round][evals[m].index]
              /\ evals[m].result # "true" =>
                    \A q \in RoundEvals(evals[m].round) : q <= m
        /\ pc = "Success" =>
              /\ Cardinality(RoundEvals(i)) = call.n
              /\ \A m \in RoundEvals(i) : evals[m].result = "true"
        /\ (call.n = 0 /\ pc \in Terminal) =>
              /\ pc = "Success"
              /\ i = 1
              /\ evals = <<>>

C28_Witness ==
    /\ IsSmart
    /\ call.n = 2
    /\ pc = "Success"
    /\ i = 2
    /\ Len(evals) = 3
    /\ evals[1].result = "false"
    /\ evals[3].index = 2

----------------------------------------------------------------------------
(* Time spent by safeClick *)

RECURSIVE SumSeq(_)
SumSeq(q) == IF q = <<>> THEN 0 ELSE q[1] + SumSeq(Tail(q))

\* The readiness waits of the running call that have ended
ReadyEnded == IF pc \in {"Resolving", "AwaitingReady"} THEN i ELSE i + 1

\* A readiness wait that fails lasts until its timeout
ReadyTimeOf(j) ==
    IF call.dom[j] \in {"absent", "notClickable"} THEN ReadyTimeout ELSE call.readyTime

\* Time spent in readiness waits and retry pauses
WaitTime == SumSeq([j \in 1 .. ReadyEnded |-> ReadyTimeOf(j)]) + SumSeq(pauses)

\* Time spent in clicks
ClickTime == (IF pc = "Acting" THEN Len(acts) - 1 ELSE Len(acts)) * call.clickTime

Elapsed == WaitTime + ClickTime

WaitBudget == DefaultRetries * ReadyTimeout + (DefaultRetries - 1) * RetryDelay

====
